---- MODULE Spec2Model ----
(***************************************************************************)
(* A model of the Euchre engine: the action pipeline of core/logic.py      *)
(* (validators, executor, breadth-style drain of follow-up executors) and  *)
(* the validators, executors and rules of euchre/.                         *)
(*                                                                         *)
(* Reading conventions.  The acting player's id travels in the payload as  *)
(* player_id (the executors and validators read action.payload             *)
(* ['player_id']); a connection is the pair whose second component is the  *)
(* player (connection[1]); a player's team_id is derived from the seat;    *)
(* game.renegs is looked up by team.  Guards, assignments, early returns,  *)
(* result flags and follow-up lists are taken as written.  All four        *)
(* players stay connected.  Outbound messages carry no state.              *)
(*                                                                         *)
(* One client action = one ActionRule.process call, modelled whole: the    *)
(* validators, the executor and the complete drain of the follow-ups.      *)
(***************************************************************************)
EXTENDS Integers, Sequences, FiniteSets, TLC

\* ------------------------------------------------------------------ bounds
\* Number of permutations a shuffle may produce.
NumShuffles == 1
\* Number of suits offered to call_suit (the first ones of SUITS).
NumCallSuits == 1
\* Longest list of recorded renegs.
MaxRenegs == 1
\* A reneg call is explored while the hand score total is below this.
HandScoreCap == 6
\* Ranks drawn for the cards of a trick in SpecTrick (the first ones of RANKS).
NumTrickRanks == 2
\* Largest hand score drawn in SpecHand.
MaxHandScore == 6
\* the number of in-turn actions replayed to reach the states a drain starts from
ScriptLen == 10
\* the longest list of executors handed to run_executors as its first level
MaxLevel == 2

\* ------------------------------------------------------- program constants
NumPlayers == 4
CardsPerPlayer == 5
HandPoints == 5
RenegPoints == 5
WinningScore == 10
LedBonus == 10
TrumpBonus == 20

RANKS == <<"9", "10", "J", "Q", "K", "A">>
SUITS == <<"Hearts", "Diamonds", "Clubs", "Spades">>
NoSuit == "None"
NoPlayer == 0
NoTeam == 0

Players == 1..NumPlayers
Teams == {1, 2}

Min(a, b) == IF a < b THEN a ELSE b

Range(f) == {f[i] : i \in DOMAIN f}

Card(rank, suit) == [rank |-> rank, suit |-> suit]

\* EuchreDeck.collect: for suit in SUITS: for rank in RANKS: append Card
collect == [i \in 1..(Len(SUITS) * Len(RANKS)) |->
              Card(RANKS[((i - 1) % Len(RANKS)) + 1], SUITS[((i - 1) \div Len(RANKS)) + 1])]

\* Deck.shuffle draws a random permutation; the model draws the k-th of a
\* family of affine permutations i -> m*i + k (mod n), m coprime to 24.
ShuffleMul(k) == <<5, 7, 11, 13, 17, 19, 23, 1>>[((k - 1) % 8) + 1]
shuffle(cards, k) == [i \in 1..Len(cards) |->
                        cards[(((i - 1) * ShuffleMul(k) + k) % Len(cards)) + 1]]

\* Deck.peek: self.cards[-1]
peek(cards) == cards[Len(cards)]

\* list.remove / "in" on a Python list
Contains(list, x) == \E i \in 1..Len(list) : list[i] = x
FirstIndex(list, x) == CHOOSE i \in 1..Len(list) : list[i] = x /\ \A j \in 1..(i - 1) : list[j] # x
RemoveFirst(list, x) == LET k == FirstIndex(list, x)
                        IN  [i \in 1..(Len(list) - 1) |-> IF i < k THEN list[i] ELSE list[i + 1]]

\* Player.team_id, derived from the seat: partners sit opposite each other.
team_id(p) == IF p % 2 = 1 THEN 1 ELSE 2

\* game.players[(index + 1) % len(game.players)]
NextSeat(p) == (p % NumPlayers) + 1

\* ConnectionManager.get_connection(player_id) is not None
Connected(p) == p \in Players


\* ------------------------------------------------------------------- state
VARIABLES
  phase,                \* EuchreGame.phase
  deck,                 \* Deck.cards, top of the deck first
  hands,                \* Player.hand of each seat (a Python list)
  slots,                \* Board.slots[player.id].cards
  trump_suit,           \* EuchreGame.trump_suit
  calling_team,         \* EuchreGame.calling_team
  score,                \* EuchreGame.score
  hand_score,           \* EuchreGame.hand_score
  current_dealer,       \* EuchreGame.current_dealer
  current_player,       \* EuchreGame.current_player
  blocking_on_discard,  \* EuchreGame.blocking_on_discard (a list of Player objects)
  renegs,               \* EuchreGame.renegs (the team of each record)
  result,               \* how the last inbound action ended: ok, failed or raised
  log,                  \* history: the executors the last inbound action ran, in order
  trick_plays,          \* history: the plays made since the last scored trick
  last_trick,           \* history: what the last action's ScoreTrick evaluated
  last_hand             \* history: what the last action's ScoreHand evaluated

vars == <<phase, deck, hands, slots, trump_suit, calling_team, score, hand_score,
          current_dealer, current_player, blocking_on_discard, renegs, result, log,
          trick_plays, last_trick, last_hand>>

\* The game and board fields, without the histories.
gameVars == <<phase, deck, hands, slots, trump_suit, calling_team, score, hand_score,
              current_dealer, current_player, blocking_on_discard, renegs>>

NoTrick == [scored |-> FALSE]
NoHand == [scored |-> FALSE]

\* The state as one record, as the executors receive it (board, game).
State == [phase |-> phase, deck |-> deck, hands |-> hands, slots |-> slots,
          trump_suit |-> trump_suit, calling_team |-> calling_team, score |-> score,
          hand_score |-> hand_score, current_dealer |-> current_dealer,
          current_player |-> current_player,
          blocking_on_discard |-> blocking_on_discard, renegs |-> renegs,
          trick_plays |-> trick_plays, last_trick |-> NoTrick, last_hand |-> NoHand]

\* ActionResult(success, message, follow_up_actions); success is "none" when
\* the executor returned no result at all.
ActionResult(s, success, follow) == [s |-> s, success |-> success, follow |-> follow]

\* Action(name, payload)
Action(name, player, card, suit, k) ==
  [name |-> name, player_id |-> player, card |-> card, suit |-> suit, shuffle |-> k]

NoCard == Card("None", NoSuit)

\* --------------------------------------------------------------- executors
\* Deck.deal inside Deal.execute: five rounds over the connections, each
\* popping cards[0] into the next player's hand.
RECURSIVE DealRounds(_, _, _)
DealRounds(s, round, seat) ==
  IF round > CardsPerPlayer THEN s
  ELSE LET card == Head(s.deck)
           t == [s EXCEPT !.deck = Tail(s.deck),
                          !.hands[seat] = Append(s.hands[seat], card)]
       IN  IF seat = NumPlayers THEN DealRounds(t, round + 1, 1)
           ELSE DealRounds(t, round, seat + 1)

\* Deal.execute
ExecDeal(a, s) ==
  LET t == [s EXCEPT !.deck = shuffle(collect, a.shuffle)]
  IN  ActionResult(DealRounds(t, 1, 1), "true", <<"Broadcast">>)

\* PickUp.execute without the change of phase.
ExecPickUp_phase_kept(a, s) ==
  IF s.deck = <<>> THEN ActionResult(s, "false", <<>>)
  ELSE LET card == Head(s.deck)
           dealer == s.current_dealer
           t == [s EXCEPT !.deck = Tail(s.deck)]
       IN  ActionResult(
             [t EXCEPT !.hands[dealer] = Append(t.hands[dealer], card),
                       !.trump_suit = card.suit,
                       !.blocking_on_discard =
                          IF Contains(t.blocking_on_discard, dealer)
                          THEN t.blocking_on_discard
                          ELSE Append(t.blocking_on_discard, dealer),
                       !.calling_team = team_id(a.player_id)],
             "true", <<>>)

\* PickUp.execute with the dealer's team recorded as the calling team.
ExecPickUp_dealer_calls(a, s) ==
  IF s.deck = <<>> THEN ActionResult(s, "false", <<>>)
  ELSE LET card == Head(s.deck)
           dealer == s.current_dealer
           t == [s EXCEPT !.deck = Tail(s.deck)]
       IN  ActionResult(
             [t EXCEPT !.hands[dealer] = Append(t.hands[dealer], card),
                       !.trump_suit = card.suit,
                       !.blocking_on_discard =
                          IF Contains(t.blocking_on_discard, dealer)
                          THEN t.blocking_on_discard
                          ELSE Append(t.blocking_on_discard, dealer),
                       !.calling_team = team_id(dealer),
                       !.phase = "DISCARD"],
             "true", <<>>)

\* PickUp.execute
ExecPickUp(a, s) ==
  IF s.deck = <<>> THEN ActionResult(s, "false", <<>>)
  ELSE LET card == Head(s.deck)
           dealer == s.current_dealer
           t == [s EXCEPT !.deck = Tail(s.deck)]
       IN  IF Connected(dealer)
           THEN ActionResult(
                  [t EXCEPT !.hands[dealer] = Append(t.hands[dealer], card),
                            !.trump_suit = card.suit,
                            !.blocking_on_discard =
                               IF Contains(t.blocking_on_discard, dealer)
                               THEN t.blocking_on_discard
                               ELSE Append(t.blocking_on_discard, dealer),
                            !.calling_team = team_id(a.player_id),
                            !.phase = "DISCARD"],
                  "true", <<>>)
           ELSE ActionResult(t, "false", <<>>)

\* game.renegs[team_id]: a reneg is on record for the team
HasReneg(list, team) == Contains(list, team)

\* Reneg.execute
ExecReneg(a, s) ==
  LET team == team_id(a.player_id)
      opposing_team == IF team = 2 THEN 1 ELSE 2
  IN  IF HasReneg(s.renegs, team)
      THEN ActionResult([s EXCEPT !.hand_score[team] = @ + RenegPoints],
                        "true", <<"Broadcast", "ScoreHand">>)
      ELSE ActionResult([s EXCEPT !.hand_score[opposing_team] = @ + RenegPoints],
                        "false", <<"Broadcast", "ScoreHand">>)

\* PlayCard.execute: the card leaves the current player's hand
ExecPlayCard(a, s) ==
  LET cp == s.current_player
  IN  IF Connected(cp) /\ Contains(s.hands[cp], a.card)
      THEN ActionResult(
             [s EXCEPT !.hands[cp] = RemoveFirst(s.hands[cp], a.card),
                       !.slots[cp] = Append(s.slots[cp], a.card),
                       !.trick_plays = Append(s.trick_plays, [player |-> cp, card |-> a.card])],
             "true", <<"AdvanceTurn">>)
      ELSE ActionResult(s, "false", <<>>)

\* NotifyCurrentPlayer.execute
ExecNotifyCurrentPlayer(a, s) ==
  IF Connected(s.current_player) THEN ActionResult(s, "true", <<>>)
  ELSE ActionResult(s, "false", <<>>)

\* Broadcast.execute
ExecBroadcast(a, s) == ActionResult(s, "true", <<>>)

\* AdvanceDealer.execute with the dealer left where it is.
ExecAdvanceDealer_dealer_kept(a, s) == ActionResult(s, "true", <<>>)

\* AdvanceDealer.execute
ExecAdvanceDealer(a, s) ==
  ActionResult([s EXCEPT !.current_dealer = NextSeat(s.current_dealer)], "true", <<>>)

\* Discard.execute
ExecDiscard(a, s) ==
  LET p == a.player_id
      t == [s EXCEPT !.blocking_on_discard =
                        IF Contains(s.blocking_on_discard, p)
                        THEN RemoveFirst(s.blocking_on_discard, p)
                        ELSE s.blocking_on_discard]
  IN  IF Connected(p) /\ Contains(t.hands[p], a.card)
      THEN ActionResult([t EXCEPT !.hands[p] = RemoveFirst(t.hands[p], a.card),
                                  !.phase = "PLAY"],
                        "true", <<>>)
      ELSE ActionResult(t, "false", <<>>)

\* AdvanceTurn.execute: without a completed circuit no result is returned
ExecAdvanceTurn(a, s) ==
  LET trick_over == s.current_dealer = s.current_player
      t == [s EXCEPT !.current_player = NextSeat(s.current_player)]
  IN  IF trick_over /\ s.phase = "PICKUP_CARD"
      THEN ActionResult([t EXCEPT !.phase = "PICK_SUIT"], "true", <<"Broadcast">>)
      ELSE IF trick_over /\ s.phase = "PICK_SUIT"
      THEN ActionResult([t EXCEPT !.phase = "DISCARD"], "true", <<"Broadcast">>)
      ELSE IF trick_over /\ s.phase = "PLAY"
      THEN ActionResult([t EXCEPT !.phase = "SCORE_TRICK"], "true",
                        <<"Broadcast", "ScoreTrick">>)
      ELSE ActionResult(t, "none", <<>>)

\* SetPlayerToDealersLeft.execute
ExecSetPlayerToDealersLeft(a, s) ==
  ActionResult([s EXCEPT !.current_player = NextSeat(s.current_dealer)],
               "true", <<"Broadcast">>)

\* SetDealer.execute
ExecSetDealer(a, s) ==
  ActionResult([s EXCEPT !.current_dealer = a.player_id], "true", <<"Broadcast">>)

\* SetTrumpSuit.execute
ExecSetTrumpSuit(a, s) ==
  ActionResult([s EXCEPT !.trump_suit = a.suit,
                         !.calling_team = team_id(a.player_id),
                         !.phase = "PLAY"],
               "true", <<"Broadcast">>)

\* ClearBoard.execute
ExecClearBoard(a, s) ==
  ActionResult([s EXCEPT !.slots = [p \in Players |-> <<>>],
                         !.calling_team = NoTeam,
                         !.trump_suit = NoSuit,
                         !.trick_plays = <<>>],
               "true", <<>>)


\* order.get(card.rank, -1) in ScoreTrick.card_value
order(rank) == IF \E i \in 1..Len(RANKS) : RANKS[i] = rank
               THEN (CHOOSE i \in 1..Len(RANKS) : RANKS[i] = rank) - 1
               ELSE -1

\* card_value with the two bonuses exchanged: the led suit would outrank trump.
card_value_bonuses_exchanged(card, starting_suit, trump) ==
  order(card.rank) + (IF card.suit = starting_suit THEN TrumpBonus
                      ELSE IF card.suit = trump THEN LedBonus
                      ELSE 0)

\* ScoreTrick.card_value
card_value(card, starting_suit, trump) ==
  order(card.rank) + (IF card.suit = starting_suit THEN LedBonus
                      ELSE IF card.suit = trump THEN TrumpBonus
                      ELSE 0)

\* ScoreTrick.execute, step 1: the top card of each slot, starting at the
\* current player's seat
played_cards(s) ==
  [i \in 1..NumPlayers |->
     LET player == ((s.current_player - 1 + (i - 1)) % NumPlayers) + 1
     IN  [player |-> player, card |-> s.slots[player][Len(s.slots[player])]]]

\* max(played_cards, key=card_value): the first play of maximal value
MaxPlay(played, starting_suit, trump) ==
  LET v(i) == card_value(played[i].card, starting_suit, trump)
      k == CHOOSE i \in 1..Len(played) :
             /\ \A j \in 1..Len(played) : v(j) <= v(i)
             /\ \A j \in 1..(i - 1) : v(j) < v(i)
  IN  played[k]

\* hand_score[1] + hand_score[2] >= 5 in ScoreTrick.execute
HandIsOver(hs) == hs[1] + hs[2] >= HandPoints

\* ScoreTrick.execute
ExecScoreTrick(a, s) ==
  IF \E p \in Players : s.slots[p] = <<>>
  THEN ActionResult(s, "false", <<>>)
  ELSE LET played == played_cards(s)
           starting_suit == played[1].card.suit
           win == MaxPlay(played, starting_suit, s.trump_suit)
           hs == [s.hand_score EXCEPT ![team_id(win.player)] = @ + 1]
           seen == [scored |-> TRUE, cards |-> played, led |-> starting_suit,
                    trump |-> s.trump_suit, winner |-> win.player,
                    plays |-> s.trick_plays, before |-> s.hand_score, after |-> hs]
           t == [s EXCEPT !.hand_score = hs, !.last_trick = seen, !.trick_plays = <<>>]
       IN  IF HandIsOver(hs)
           THEN ActionResult([t EXCEPT !.phase = "SCORE_GAME"], "true",
                             <<"Broadcast", "ScoreHand">>)
           ELSE ActionResult([t EXCEPT !.phase = "PLAY", !.current_player = win.player],
                             "true", <<"Broadcast", "NotifyCurrentPlayer">>)

\* ScoreHand.execute: winner = 1 if hand_score[1] > hand_score[2] else 2
HandWinner(hs) == IF hs[1] > hs[2] THEN 1 ELSE 2

\* The points awarded without the euchre rule: 2 only for a march.
HandPointsAwarded_march_only(hs, calling) ==
  LET winning_score == IF hs[1] >= hs[2] THEN hs[1] ELSE hs[2]
  IN  IF winning_score >= HandPoints THEN 2 ELSE 1

\* The points awarded with a march counted double.
HandPointsAwarded_march_double(hs, calling) ==
  LET winning_score == IF hs[1] >= hs[2] THEN hs[1] ELSE hs[2]
  IN  IF winning_score >= HandPoints THEN 4
      ELSE IF HandWinner(hs) # calling THEN 2 ELSE 1

\* ScoreHand.execute: the points awarded
HandPointsAwarded(hs, calling) ==
  LET winning_score == IF hs[1] >= hs[2] THEN hs[1] ELSE hs[2]
  IN  IF winning_score >= HandPoints \/ HandWinner(hs) # calling THEN 2 ELSE 1

\* The end-of-game test with ten points not yet enough.
GameIsWon_strict(points) == points > WinningScore

\* score[winner] >= 10 in ScoreHand.execute
GameIsWon(points) == points >= WinningScore

\* ScoreHand.execute
ExecScoreHand(a, s) ==
  LET winner == HandWinner(s.hand_score)
      points == HandPointsAwarded(s.hand_score, s.calling_team)
      sc == [s.score EXCEPT ![winner] = @ + points]
      seen == [scored |-> TRUE, hand_score |-> s.hand_score, calling |-> s.calling_team,
               winner |-> winner, points |-> points, before |-> s.score, after |-> sc]
      t == [s EXCEPT !.score = sc, !.last_hand = seen]
  IN  IF GameIsWon(sc[winner])
      THEN ActionResult([t EXCEPT !.phase = "END_GAME"], "true", <<"Broadcast">>)
      ELSE ActionResult([t EXCEPT !.phase = "DEAL",
                                  !.hand_score = [x \in Teams |-> 0]],
                        "true", <<"Broadcast", "ClearBoard", "AdvanceDealer", "Deal">>)

\* executor.execute(action, connection_manager, board, game)
Execute(e, a, s) ==
  CASE e = "PickUp" -> ExecPickUp(a, s)
    [] e = "Reneg" -> ExecReneg(a, s)
    [] e = "PlayCard" -> ExecPlayCard(a, s)
    [] e = "NotifyCurrentPlayer" -> ExecNotifyCurrentPlayer(a, s)
    [] e = "AdvanceDealer" -> ExecAdvanceDealer(a, s)
    [] e = "Broadcast" -> ExecBroadcast(a, s)
    [] e = "Deal" -> ExecDeal(a, s)
    [] e = "Discard" -> ExecDiscard(a, s)
    [] e = "AdvanceTurn" -> ExecAdvanceTurn(a, s)
    [] e = "SetPlayerToDealersLeft" -> ExecSetPlayerToDealersLeft(a, s)
    [] e = "SetDealer" -> ExecSetDealer(a, s)
    [] e = "SetTrumpSuit" -> ExecSetTrumpSuit(a, s)
    [] e = "ClearBoard" -> ExecClearBoard(a, s)
    [] e = "ScoreTrick" -> ExecScoreTrick(a, s)
    [] e = "ScoreHand" -> ExecScoreHand(a, s)

\* ------------------------------------------------------------ the pipeline
\* What process hands back: the state reached, how it ended (ok, failed,
\* raised) and the executors that ran.
Outcome(s, how, ran) == [s |-> s, result |-> how, log |-> ran]

\* The check of result.success with a failed result let through: only a missing
\* result stops the level.
Stops_only_missing(r) == r.success = "none"

\* "if not result.success: return result" in ActionRule.run_executors
Stops(r) == r.success # "true"

\* run_executors with each executor's follow-ups run right after it, before
\* the rest of its level.
RECURSIVE run_executors_depth_first(_, _, _, _, _, _)
run_executors_depth_first(a, s, to_execute, i, follow_up_actions, ran) ==
  IF i > Len(to_execute) THEN Outcome(s, "ok", ran)
  ELSE LET r == Execute(to_execute[i], a, s)
           now == Append(ran, to_execute[i])
       IN  IF r.success # "true"
           THEN Outcome(r.s, IF r.success = "none" THEN "raised" ELSE "failed", now)
           ELSE run_executors_depth_first(
                  a, r.s, r.follow \o SubSeq(to_execute, i + 1, Len(to_execute)),
                  1, <<>>, now)

\* ActionRule.run_executors: execute the level in list order, stop at the
\* first result that is not a success (a missing result raises on
\* result.success), then recurse on the follow-ups collected at this level.
RECURSIVE run_executors(_, _, _, _, _, _)
run_executors(a, s, to_execute, i, follow_up_actions, ran) ==
  IF i > Len(to_execute)
  THEN IF follow_up_actions # <<>>
       THEN run_executors(a, s, follow_up_actions, 1, <<>>, ran)
       ELSE Outcome(s, "ok", ran)
  ELSE LET r == Execute(to_execute[i], a, s)
           now == Append(ran, to_execute[i])
       IN  IF Stops(r)
           THEN Outcome(r.s, IF r.success = "none" THEN "raised" ELSE "failed", now)
           ELSE run_executors(a, r.s, to_execute, i + 1, follow_up_actions \o r.follow, now)

\* -------------------------------------------------------------- validators
\* CorrectPhase with call_reneg left out of the phase check.
CorrectPhase_reneg_unchecked(a, s) ==
  CASE a.name \in {"play", "trick_over"} -> s.phase = "PLAY"
    [] a.name = "call_reneg" -> TRUE
    [] a.name = "discard" -> s.phase = "DISCARD"
    [] a.name = "call_pickup" -> s.phase = "PICKUP_CARD"
    [] a.name = "call_suit" -> s.phase = "PICK_SUIT"
    [] a.name = "pass" -> s.phase \in {"PICKUP_CARD", "PICK_SUIT"}
    [] OTHER -> FALSE

\* CorrectPhase with call_suit let through in PICKUP_CARD as well.
CorrectPhase_suit_in_pickup(a, s) ==
  CASE a.name \in {"play", "call_reneg", "trick_over"} -> s.phase = "PLAY"
    [] a.name = "discard" -> s.phase = "DISCARD"
    [] a.name = "call_pickup" -> s.phase = "PICKUP_CARD"
    [] a.name = "call_suit" -> s.phase \in {"PICKUP_CARD", "PICK_SUIT"}
    [] a.name = "pass" -> s.phase \in {"PICKUP_CARD", "PICK_SUIT"}
    [] OTHER -> FALSE

\* CorrectPhase.validate
CorrectPhase(a, s) ==
  CASE a.name \in {"play", "call_reneg", "trick_over"} -> s.phase = "PLAY"
    [] a.name = "discard" -> s.phase = "DISCARD"
    [] a.name = "call_pickup" -> s.phase = "PICKUP_CARD"
    [] a.name = "call_suit" -> s.phase = "PICK_SUIT"
    [] a.name = "pass" -> s.phase \in {"PICKUP_CARD", "PICK_SUIT"}
    [] OTHER -> FALSE

\* PlayersTurn.validate: the current player has a connection
PlayersTurn(a, s) == Connected(s.current_player)

\* CanPass.validate
CanPass(a, s) == ~(s.current_dealer = a.player_id /\ s.phase = "PICK_SUIT")

\* BlockedOnPlayerDiscard.validate: "player_id in game.blocking_on_discard"
\* looks a player id up in a list of Player objects; an id equals no Player.
IdEqualsPlayer(player_id, player) == FALSE
BlockedOnPlayerDiscard(a, s) ==
  \E i \in 1..Len(s.blocking_on_discard) :
     IdEqualsPlayer(a.player_id, s.blocking_on_discard[i])

\* HasCard.validate
HasCard(a, s) ==
  /\ a.name \in {"play", "discard"}
  /\ a.player_id \in Players
  /\ Contains(s.hands[a.player_id], a.card)

\* ValidSuit.validate (the PICKUP_CARD branch cannot follow CorrectPhase)
ValidSuit(a, s) ==
  \/ a.name # "call_suit"
  \/ Contains(SUITS, a.suit)


\* validators.TrickOver.validate: every slot of the board is empty
TrickOver(a, s) == \A p \in Players : s.slots[p] = <<>>

\* validator.validate(action, connection_manager, board, game)
validate(v, a, s) ==
  CASE v = "CorrectPhase" -> CorrectPhase(a, s)
    [] v = "PlayersTurn" -> PlayersTurn(a, s)
    [] v = "CanPass" -> CanPass(a, s)
    [] v = "BlockedOnPlayerDiscard" -> BlockedOnPlayerDiscard(a, s)
    [] v = "HasCard" -> HasCard(a, s)
    [] v = "ValidSuit" -> ValidSuit(a, s)
    [] v = "TrickOver" -> TrickOver(a, s)

\* "for validator in self.validators: if not validator.validate(...)": the
\* position of the first validator that returns False, 0 when none does.
FirstRejecting_phase_only(validators, a, s) ==
  IF validators # <<>> /\ ~validate(validators[1], a, s) THEN 1 ELSE 0

FirstRejecting(validators, a, s) ==
  IF \E i \in 1..Len(validators) : ~validate(validators[i], a, s)
  THEN CHOOSE i \in 1..Len(validators) :
         /\ ~validate(validators[i], a, s)
         /\ \A j \in 1..(i - 1) : validate(validators[j], a, s)
  ELSE 0

\* What process hands back, with the validators that ran.
Validated(o, ran) == [s |-> o.s, result |-> o.result, log |-> o.log, validated |-> ran]

\* ActionRule.process: the validators in order up to the first rejection, then
\* the executor and its follow-ups; validated lists the validators that ran.
process(validators, executor, a, s) ==
  IF FirstRejecting(validators, a, s) # 0
  THEN Validated(Outcome(s, "failed", <<>>),
                 SubSeq(validators, 1, FirstRejecting(validators, a, s)))
  ELSE Validated(run_executors(a, s, <<executor>>, 1, <<>>, <<>>), validators)

\* ------------------------------------------------------- rules and routing
\* The validators of each rule, in the order of its validators list.
RuleValidators(name) ==
  CASE name = "play" -> <<"CorrectPhase", "PlayersTurn", "HasCard">>
    [] name = "discard" -> <<"CorrectPhase", "HasCard", "BlockedOnPlayerDiscard">>
    [] name = "call_reneg" -> <<"CorrectPhase">>
    [] name = "call_pickup" -> <<"CorrectPhase", "PlayersTurn">>
    [] name = "pass" -> <<"CorrectPhase", "PlayersTurn", "CanPass">>
    [] name = "call_suit" -> <<"CorrectPhase", "PlayersTurn", "ValidSuit">>
    [] name = "trick_over" -> <<"CorrectPhase", "TrickOver">>

\* rules.PlayCard: CorrectPhase, PlayersTurn, HasCard; executor PlayCard
PlayCardRule(a, s) ==
  process(RuleValidators("play"), "PlayCard", a, s)

\* rules.Discard: CorrectPhase, HasCard, BlockedOnPlayerDiscard; executor Discard
DiscardRule(a, s) ==
  process(RuleValidators("discard"), "Discard", a, s)

\* The call_reneg rule: CorrectPhase; executor Reneg
CallRenegRule(a, s) == process(RuleValidators("call_reneg"), "Reneg", a, s)

\* rules.PickupCard: CorrectPhase, PlayersTurn; executor PickUp
PickupCardRule(a, s) ==
  process(RuleValidators("call_pickup"), "PickUp", a, s)

\* rules.Pass: CorrectPhase, PlayersTurn, CanPass; executor AdvanceTurn
PassRule(a, s) ==
  process(RuleValidators("pass"), "AdvanceTurn", a, s)

\* rules.CallSuit: CorrectPhase, PlayersTurn, ValidSuit; executor SetTrumpSuit
CallSuitRule(a, s) ==
  process(RuleValidators("call_suit"), "SetTrumpSuit", a, s)

\* rules.TrickOver: CorrectPhase, TrickOver; executor ScoreTrick
TrickOverRule(a, s) ==
  process(RuleValidators("trick_over"), "ScoreTrick", a, s)

\* EuchreActionRouter.rules: the names that have a registered rule
RegisteredRules == {"play", "discard", "call_reneg", "call_pickup", "call_suit", "trick_over"}

\* self.rules[action.name].process(action, ...)
rules(a, s) ==
  CASE a.name = "play" -> PlayCardRule(a, s)
    [] a.name = "discard" -> DiscardRule(a, s)
    [] a.name = "call_reneg" -> CallRenegRule(a, s)
    [] a.name = "call_pickup" -> PickupCardRule(a, s)
    [] a.name = "call_suit" -> CallSuitRule(a, s)
    [] a.name = "trick_over" -> TrickOverRule(a, s)

\* is_player_action with trick_over on the allow-list.
is_player_action_trick_over_allowed(a) ==
  a.name \in {"play", "discard", "call_reneg", "call_pickup", "call_suit", "trick_over"}

\* actions.is_player_action: the allow-list of client actions
is_player_action(a) ==
  a.name \in {"play", "discard", "call_reneg", "call_pickup", "call_suit"}

\* ActionRouter.route: both ValueErrors end the message before any validator
\* or executor has run.
route(a, s, player_action) ==
  IF a.name \notin RegisteredRules THEN Outcome(s, "raised", <<>>)
  ELSE IF player_action /\ ~is_player_action(a) THEN Outcome(s, "raised", <<>>)
  ELSE rules(a, s)

\* ----------------------------------------------------------------- actions
\* Write back what process returned.
Commit(o) ==
  /\ phase' = o.s.phase
  /\ deck' = o.s.deck
  /\ hands' = o.s.hands
  /\ slots' = o.s.slots
  /\ trump_suit' = o.s.trump_suit
  /\ calling_team' = o.s.calling_team
  /\ score' = o.s.score
  /\ hand_score' = o.s.hand_score
  /\ current_dealer' = o.s.current_dealer
  /\ current_player' = o.s.current_player
  /\ blocking_on_discard' = o.s.blocking_on_discard
  /\ renegs' = o.s.renegs
  /\ trick_plays' = o.s.trick_plays
  /\ last_trick' = o.s.last_trick
  /\ last_hand' = o.s.last_hand
  /\ result' = o.result
  /\ log' = o.log

\* EuchreGame.__init__ and EuchreSetup._create_game
Init ==
  /\ phase = "SETUP"
  /\ deck = collect
  /\ hands = [p \in Players |-> <<>>]
  /\ slots = [p \in Players |-> <<>>]
  /\ trump_suit = NoSuit
  /\ calling_team = NoTeam
  /\ score = [x \in Teams |-> 0]
  /\ hand_score = [x \in Teams |-> 0]
  /\ current_dealer = NoPlayer
  /\ current_player = NoPlayer
  /\ blocking_on_discard = <<>>
  /\ renegs = <<>>
  /\ trick_plays = <<>>
  /\ last_trick = NoTrick
  /\ last_hand = NoHand
  /\ result = "none"
  /\ log = <<>>

Shuffles == 1..NumShuffles

\* The card a player names: the oldest card of the hand, or a card nobody
\* holds when the hand is empty.
Choices(p) == IF hands[p] = <<>> THEN {NoCard} ELSE {Head(hands[p])}

\* The suits a player may call.
CallSuits == {SUITS[i] : i \in 1..Min(NumCallSuits, Len(SUITS))}

\* No hand of the match has been scored yet.
FirstHand == score[1] + score[2] = 0

\* The system starts the match: a dealer is set, the player to the dealer's
\* left is to act, the cards are dealt and bidding opens.
StartGame(d, k) ==
  /\ phase = "SETUP"
  /\ LET a == Action("start_game", d, NoCard, NoSuit, k)
         o == run_executors(a, State, <<"SetDealer", "SetPlayerToDealersLeft", "Deal">>,
                            1, <<>>, <<>>)
     IN  Commit([o EXCEPT !.s.phase = "PICKUP_CARD"])

\* The system opens the bidding of the next hand, already dealt by ScoreHand's
\* follow-ups.
StartHand ==
  /\ phase = "DEAL"
  /\ LET a == Action("start_hand", NoPlayer, NoCard, NoSuit, 1)
         o == run_executors(a, State, <<"SetPlayerToDealersLeft">>, 1, <<>>, <<>>)
     IN  Commit([o EXCEPT !.s.phase = "PICKUP_CARD"])

\* A client sends play: routed to rules.PlayCard
Play(p, c, k) ==
  /\ Commit(route(Action("play", p, c, NoSuit, k), State, TRUE))

\* A client sends discard: routed to rules.Discard
Discard(p, c) ==
  /\ Commit(route(Action("discard", p, c, NoSuit, 1), State, TRUE))

\* A client sends call_reneg: routed to the call_reneg rule
CallReneg(p, k) ==
  /\ hand_score[1] + hand_score[2] < HandScoreCap
  /\ Commit(route(Action("call_reneg", p, NoCard, NoSuit, k), State, TRUE))

\* A client sends call_pickup: routed to rules.PickupCard
CallPickup(p) ==
  /\ Commit(route(Action("call_pickup", p, NoCard, NoSuit, 1), State, TRUE))

\* rules.Pass processes a pass
Pass(p) ==
  /\ Commit(PassRule(Action("pass", p, NoCard, NoSuit, 1), State))

\* A client sends call_suit: routed to rules.CallSuit
CallSuit(p, suit) ==
  /\ Commit(route(Action("call_suit", p, NoCard, suit, 1), State, TRUE))

\* A client sends pass: the message reaches the router like every other
\* client message.
SendPass(p) ==
  /\ Commit(route(Action("pass", p, NoCard, NoSuit, 1), State, TRUE))

\* The names of the system's own actions, and a name nobody registered.
SystemNames == {"deal", "trick_over", "hand_over", "broadcast", "end_game", "start_game"}
OtherNames == SystemNames \cup {"unknown"}

\* An action of the system's own kind, or of an unknown kind, reaches the
\* router, from a client (player_action) or from the system itself.  Neither
\* route nor the trick_over rule looks at the sender.
Route(name, player_action) ==
  /\ Commit(route(Action(name, NoPlayer, NoCard, NoSuit, 1), State, player_action))

\* EuchreGame.add_reneg, called when a player fails to follow suit
AddReneg(team) ==
  /\ phase = "PLAY"
  /\ Len(renegs) < MaxRenegs
  /\ renegs' = Append(renegs, team)
  /\ result' = "none"
  /\ log' = <<>>
  /\ last_trick' = NoTrick
  /\ last_hand' = NoHand
  /\ UNCHANGED <<phase, deck, hands, slots, trump_suit, calling_team, score, hand_score,
                 current_dealer, current_player, blocking_on_discard, trick_plays>>

\* The first hand of a match in breadth: any player may send any client
\* action at any time, and renegs may be put on record.
Next ==
  \/ \E d \in Players, k \in Shuffles : StartGame(d, k)
  \/ StartHand
  \/ FirstHand /\ \E p \in Players, k \in Shuffles : \E c \in Choices(p) : Play(p, c, k)
  \/ FirstHand /\ \E p \in Players : \E c \in Choices(p) : Discard(p, c)
  \/ FirstHand /\ \E p \in Players, k \in Shuffles : CallReneg(p, k)
  \/ FirstHand /\ \E p \in Players : CallPickup(p)
  \/ FirstHand /\ \E p \in Players : Pass(p)
  \/ FirstHand /\ \E p \in Players, suit \in CallSuits : CallSuit(p, suit)
  \/ FirstHand /\ \E team \in Teams : AddReneg(team)

Spec == Init /\ [][Next]_vars

\* Whole matches in depth: seat 1 deals first, the player whose turn it is
\* bids and plays, hand after hand, until the match is decided; once it is,
\* every player tries every client action.
InTurn == phase # "END_GAME" /\ current_player \in Players
Decided == phase = "END_GAME"

NextMatch ==
  \/ StartGame(1, 1)
  \/ StartHand
  \/ InTurn /\ \E c \in Choices(current_player) : Play(current_player, c, 1)
  \/ InTurn /\ Pass(current_player)
  \/ InTurn /\ \E suit \in CallSuits : CallSuit(current_player, suit)
  \/ Decided /\ \E p \in Players : \E c \in Choices(p) : Play(p, c, 1)
  \/ Decided /\ \E p \in Players : \E c \in Choices(p) : Discard(p, c)
  \/ Decided /\ \E p \in Players : CallReneg(p, 1)
  \/ Decided /\ \E p \in Players : CallPickup(p)
  \/ Decided /\ \E p \in Players : Pass(p)
  \/ Decided /\ \E p \in Players, suit \in CallSuits : CallSuit(p, suit)
  \/ \E name \in OtherNames, player_action \in BOOLEAN : Route(name, player_action)
  \/ \E p \in Players : SendPass(p)

SpecMatch == Init /\ [][NextMatch]_vars


\* ------------------------------------------------- trick scoring, in isolation
\* The cards that may lie on the slots when a trick is scored.
TrickCards == {Card(RANKS[i], SUITS[j]) :
                 i \in 1..Min(NumTrickRanks, Len(RANKS)), j \in 1..Len(SUITS)}

\* Four different cards lie on top of the four slots, a trump suit is set and
\* AdvanceTurn has just moved the turn past the dealer.
InitTrick ==
  /\ phase = "SCORE_TRICK"
  /\ deck = <<>>
  /\ hands = [p \in Players |-> <<>>]
  /\ \E c1 \in TrickCards : \E c2 \in TrickCards \ {c1} : \E c3 \in TrickCards \ {c1, c2} :
       \E c4 \in TrickCards \ {c1, c2, c3} :
          slots = <<(<<c1>>), (<<c2>>), (<<c3>>), (<<c4>>)>>
  /\ trump_suit \in Range(SUITS)
  /\ calling_team = 1
  /\ score = [x \in Teams |-> 0]
  /\ hand_score = [x \in Teams |-> 0]
  /\ current_dealer \in Players
  /\ current_player = NextSeat(current_dealer)
  /\ blocking_on_discard = <<>>
  /\ renegs = <<>>
  /\ trick_plays = played_cards([current_player |-> current_player, slots |-> slots])
  /\ last_trick = NoTrick
  /\ last_hand = NoHand
  /\ result = "none"
  /\ log = <<>>

\* The drain reaches ScoreTrick, emitted by AdvanceTurn.
ScoreTrickStep ==
  /\ phase = "SCORE_TRICK"
  /\ Commit(run_executors(Action("play", NoPlayer, NoCard, NoSuit, 1), State,
                          <<"ScoreTrick">>, 1, <<>>, <<>>))

NextTrick == ScoreTrickStep

SpecTrick == InitTrick /\ [][NextTrick]_vars

\* -------------------------------------------------- hand scoring, in isolation
HandScores == 0..MaxHandScore
GameScores == {0, WinningScore - 2, WinningScore - 1}

\* A hand has just ended with some pair of hand scores.
InitHand ==
  /\ phase = "SCORE_GAME"
  /\ deck = <<>>
  /\ hands = [p \in Players |-> <<>>]
  /\ slots = [p \in Players |-> <<>>]
  /\ trump_suit = SUITS[1]
  /\ calling_team \in Teams \cup {NoTeam}
  /\ score \in [Teams -> GameScores]
  /\ hand_score \in [Teams -> HandScores]
  /\ current_dealer = 1
  /\ current_player = 1
  /\ blocking_on_discard = <<>>
  /\ renegs = <<>>
  /\ trick_plays = <<>>
  /\ last_trick = NoTrick
  /\ last_hand = NoHand
  /\ result = "none"
  /\ log = <<>>

\* The drain reaches ScoreHand, emitted by ScoreTrick or by Reneg.
ScoreHandStep ==
  /\ phase = "SCORE_GAME"
  /\ Commit(run_executors(Action("play", NoPlayer, NoCard, NoSuit, 1), State,
                          <<"ScoreHand">>, 1, <<>>, <<>>))

NextHand == ScoreHandStep

SpecHand == InitHand /\ [][NextHand]_vars

\* ------------------------------------------------- the drain, in isolation
\* The state EuchreGame.__init__ and _create_game leave.
NewGame ==
  [phase |-> "SETUP", deck |-> collect, hands |-> [p \in Players |-> <<>>],
   slots |-> [p \in Players |-> <<>>], trump_suit |-> NoSuit, calling_team |-> NoTeam,
   score |-> [x \in Teams |-> 0], hand_score |-> [x \in Teams |-> 0],
   current_dealer |-> NoPlayer, current_player |-> NoPlayer,
   blocking_on_discard |-> <<>>, renegs |-> <<>>, trick_plays |-> <<>>,
   last_trick |-> NoTrick, last_hand |-> NoHand]

\* The state after the first k steps of a match played in turn: seat 1 deals,
\* all four players pass, the player to act calls the first suit, and then
\* each player to act plays the oldest card of the hand.
RECURSIVE Scripted(_)
Scripted(k) ==
  IF k = 0 THEN NewGame
  ELSE LET s == Scripted(k - 1)
           cp == s.current_player
       IN  IF s.phase = "SETUP"
           THEN [run_executors(Action("start_game", 1, NoCard, NoSuit, 1), s,
                               <<"SetDealer", "SetPlayerToDealersLeft", "Deal">>,
                               1, <<>>, <<>>).s EXCEPT !.phase = "PICKUP_CARD"]
           ELSE IF k <= 1 + NumPlayers
           THEN PassRule(Action("pass", cp, NoCard, NoSuit, 1), s).s
           ELSE IF k = 2 + NumPlayers
           THEN CallSuitRule(Action("call_suit", cp, NoCard, SUITS[1], 1), s).s
           ELSE IF s.phase = "PLAY" /\ s.hands[cp] # <<>>
           THEN PlayCardRule(Action("play", cp, Head(s.hands[cp]), NoSuit, 1), s).s
           ELSE s

\* A drain starts in one of the scripted states, with or without a reneg on
\* record once cards are being played.
InitDrain ==
  /\ \E k \in 1..ScriptLen :
       LET s == Scripted(k)
       IN  /\ phase = s.phase
           /\ deck = s.deck
           /\ hands = s.hands
           /\ slots = s.slots
           /\ trump_suit = s.trump_suit
           /\ calling_team = s.calling_team
           /\ score = s.score
           /\ hand_score = s.hand_score
           /\ current_dealer = s.current_dealer
           /\ current_player = s.current_player
           /\ blocking_on_discard = s.blocking_on_discard
           /\ renegs \in IF s.phase = "PLAY" THEN {<<>>, <<1>>} ELSE {<<>>}
           /\ trick_plays = s.trick_plays
  /\ last_trick = NoTrick
  /\ last_hand = NoHand
  /\ result = "none"
  /\ log = <<>>

\* Every executor class of executors.py, and the lists of them handed to
\* run_executors as a first level.
Executors == {"PickUp", "Reneg", "PlayCard", "NotifyCurrentPlayer", "AdvanceDealer",
              "Broadcast", "Deal", "Discard", "AdvanceTurn", "SetPlayerToDealersLeft",
              "SetDealer", "SetTrumpSuit", "ClearBoard", "ScoreTrick", "ScoreHand"}
Levels == UNION {[1..n -> Executors] : n \in 1..MaxLevel}

\* The action a drain is run for: sent by p, naming the oldest card of p's hand.
DrainAction(p) ==
  Action("play", p, IF hands[p] = <<>> THEN NoCard ELSE Head(hands[p]), SUITS[1], 1)

\* run_executors is called once on a level.
Drain(level, p) ==
  /\ result = "none"
  /\ Commit(run_executors(DrainAction(p), State, level, 1, <<>>, <<>>))

\* The senders of the action a drain is run for: the dealer and an opponent.
Senders == {1, 2}

NextDrain == \E level \in Levels, p \in Senders : Drain(level, p)

SpecDrain == InitDrain /\ [][NextDrain]_vars


\* ------------------------------------------------------------------ claims
\* C1: in every reachable state hand_score[1] + hand_score[2] is at most 5.
C1_HandScoreAtMostFive == hand_score[1] + hand_score[2] <= HandPoints

\* The adjusted value as the rules state it: the rank index 0..5, plus 10 for
\* a card of the led suit, plus 20 for a trump card.
RankIndex(rank) == CHOOSE n \in 0..(Len(RANKS) - 1) : RANKS[n + 1] = rank
AdjustedValue(card, led, trump) ==
  RankIndex(card.rank) + (IF card.suit = led THEN 10 ELSE 0)
                       + (IF card.suit = trump THEN 20 ELSE 0)

\* The play of the player the trick went to.
WinningPlay(t) == t.cards[CHOOSE i \in 1..Len(t.cards) : t.cards[i].player = t.winner]

\* C2: the trick goes to the player whose card has the largest adjusted value
\* (rank index, +10 led suit, +20 trump), so a trump card beats every card
\* that is not trump, and exactly the winner's team gains one hand point.
C2_TrickToMaxAdjustedValue ==
  last_trick.scored =>
    LET t == last_trick
        w == WinningPlay(t)
        other == IF team_id(t.winner) = 1 THEN 2 ELSE 1
    IN  /\ \A i \in 1..Len(t.cards) :
             t.cards[i] # w =>
               AdjustedValue(t.cards[i].card, t.led, t.trump)
                 < AdjustedValue(w.card, t.led, t.trump)
        /\ (\E i \in 1..Len(t.cards) : t.cards[i].card.suit = t.trump)
             => w.card.suit = t.trump
        /\ t.after[team_id(t.winner)] = t.before[team_id(t.winner)] + 1
        /\ t.after[other] = t.before[other]
        /\ hand_score = t.after

\* C2's case: a low trump takes the trick from a higher card of the led suit.
C2_Witness ==
  /\ last_trick.scored
  /\ last_trick.led # last_trick.trump
  /\ WinningPlay(last_trick).card.suit = last_trick.trump
  /\ \E i \in 1..Len(last_trick.cards) :
       /\ last_trick.cards[i].card.suit = last_trick.led
       /\ RankIndex(last_trick.cards[i].card.rank)
            > RankIndex(WinningPlay(last_trick).card.rank)

\* C3: a trick is scored only when each of the four players has played exactly
\* one card since the previous trick was scored, and the four cards evaluated
\* are the cards played in that trick.
C3_TrickScoredAfterFourPlays ==
  last_trick.scored =>
    /\ Len(last_trick.plays) = NumPlayers
    /\ {last_trick.plays[i].player : i \in 1..Len(last_trick.plays)} = Players
    /\ Range(last_trick.cards) = Range(last_trick.plays)

\* C4: the led suit used for the +10 bonus is the suit of the card played first
\* in the trick.
C4_LedSuitIsFirstPlayed ==
  last_trick.scored =>
    /\ last_trick.plays # <<>>
    /\ last_trick.led = last_trick.plays[1].card.suit

\* C5: hand scoring takes as winner the team with the higher hand score and
\* awards it 2 game points if it is not the calling team or has 5 or more hand
\* points, and 1 game point if it is the calling team with fewer than 5.
C5_HandScoringAward ==
  last_hand.scored =>
    LET h == last_hand
        hs == h.hand_score
        other == IF h.winner = 1 THEN 2 ELSE 1
    IN  /\ hs[1] > hs[2] => h.winner = 1
        /\ hs[2] > hs[1] => h.winner = 2
        /\ (h.winner # h.calling \/ hs[h.winner] >= 5) => h.points = 2
        /\ (h.winner = h.calling /\ hs[h.winner] < 5) => h.points = 1
        /\ score[h.winner] = h.before[h.winner] + h.points
        /\ score[other] = h.before[other]

\* C5's case: the calling team wins the hand short of a march and gets 1 point.
C5_Witness ==
  /\ last_hand.scored
  /\ last_hand.winner = last_hand.calling
  /\ last_hand.hand_score[last_hand.winner] > last_hand.hand_score[3 - last_hand.winner]
  /\ last_hand.points = 1
  /\ score[last_hand.winner] = last_hand.before[last_hand.winner] + 1

\* C6: a call_reneg made in PLAY always ends the hand: upheld or rejected, hand
\* scoring has run when the action has resolved and the phase is no longer PLAY.
C6_RenegEndsHand ==
  (log # <<>> /\ log[1] = "Reneg") => (last_hand.scored /\ phase # "PLAY")

\* C7: when hand scoring brings a team to 10 or more the phase becomes
\* END_GAME, and from then on every action is rejected or raises and leaves
\* score, hand_score, phase, hands, board, dealer and current player unchanged.
C7_EndGameIsFinal ==
  /\ []((last_hand.scored /\ \E x \in Teams : score[x] >= 10) => phase = "END_GAME")
  /\ [][phase = "END_GAME" =>
          /\ result' \in {"failed", "raised"}
          /\ UNCHANGED <<score, hand_score, phase, hands, slots, current_dealer,
                         current_player>>]_vars

\* C7's case: the match is decided and an action sent afterwards was rejected.
C7_Witness ==
  /\ phase = "END_GAME"
  /\ \E x \in Teams : score[x] >= 10
  /\ result = "failed"
  /\ ~last_hand.scored

\* C8: the game score changes only when hand scoring runs; each hand scoring
\* raises the score of exactly one team, the hand winner, by 1 or 2 and leaves
\* the other team's score alone; no score ever decreases.
C8_ScoreChangesOnlyAtHandScoring ==
  [][/\ score' # score => last_hand'.scored
     /\ last_hand'.scored =>
          \E w \in Teams :
             /\ last_hand'.hand_score[w] >= last_hand'.hand_score[3 - w]
             /\ score'[w] - score[w] \in {1, 2}
             /\ score'[3 - w] = score[3 - w]
     /\ \A x \in Teams : score'[x] >= score[x]]_vars

\* C8's case: a hand has been scored in play and the match goes on.
C8_Witness == last_hand.scored /\ phase = "DEAL" /\ score[1] + score[2] > 0

\* C9: trump_suit and calling_team are unset whenever no hand is active: in
\* SETUP, DEAL, PICKUP_CARD, END_GAME, and in PICK_SUIT.
C9_TrumpUnsetOutsideHand ==
  phase \in {"SETUP", "DEAL", "PICKUP_CARD", "PICK_SUIT", "END_GAME"}
    => (trump_suit = NoSuit /\ calling_team = NoTeam)

\* C10: if blocking_on_discard is non-empty then the phase is DISCARD.
C10_BlockingImpliesDiscard == blocking_on_discard # <<>> => phase = "DISCARD"

\* C10's case: a pickup has put the dealer on the blocking list.
C10_Witness ==
  /\ blocking_on_discard = <<current_dealer>>
  /\ log = <<"PickUp">>
  /\ phase = "DISCARD"

\* C11: a successful pickup in PICKUP_CARD moves one card from the deck into the
\* dealer's hand, sets trump_suit to that card's suit, sets calling_team to the
\* team of the player who called, puts the dealer and nobody else into
\* blocking_on_discard and sets the phase to DISCARD.
C11_PickupEffects ==
  [][\A p \in Players :
       (phase = "PICKUP_CARD" /\ CallPickup(p) /\ result' = "ok") =>
          /\ deck' = Tail(deck)
          /\ hands' = [hands EXCEPT ![current_dealer] = Append(@, Head(deck))]
          /\ trump_suit' = Head(deck).suit
          /\ calling_team' = team_id(p)
          /\ blocking_on_discard' = <<current_dealer>>
          /\ phase' = "DISCARD"
          /\ UNCHANGED <<slots, score, hand_score, current_dealer, current_player>>]_vars

\* C11's case: a player of the other team has had the dealer pick up.
C11_Witness ==
  /\ log = <<"PickUp">>
  /\ result = "ok"
  /\ calling_team # team_id(current_dealer)
  /\ Len(hands[current_dealer]) = CardsPerPlayer + 1
  /\ trump_suit = hands[current_dealer][CardsPerPlayer + 1].suit

\* C12: after a pickup, a discard by the dealer of a card the dealer holds
\* passes validation and succeeds: the card leaves the dealer's hand, the dealer
\* leaves blocking_on_discard and the phase becomes PLAY; a discard by a player
\* who is not in blocking_on_discard is rejected and changes nothing.
C12_DealerDiscardSucceeds ==
  [][/\ \A p \in Players : \A c \in Range(hands[p]) :
          (/\ p = current_dealer
           /\ phase = "DISCARD"
           /\ Contains(blocking_on_discard, p)
           /\ Discard(p, c)) =>
             /\ result' = "ok"
             /\ hands' = [hands EXCEPT ![p] = RemoveFirst(@, c)]
             /\ blocking_on_discard' = <<>>
             /\ phase' = "PLAY"
     /\ \A p \in Players : \A c \in Range(hands[p]) \cup {NoCard} :
          (~Contains(blocking_on_discard, p) /\ Discard(p, c)) =>
             (result' = "failed" /\ UNCHANGED gameVars)]_vars

\* C13: when hand scoring leaves both teams below 10 game points, then once the
\* action has resolved hand_score is {1:0, 2:0}, every board slot is empty,
\* trump_suit and calling_team are unset, and the dealer is the player seated
\* one seat after the previous dealer (modulo 4).
C13_HandResetAfterScoring ==
  [][(last_hand'.scored /\ \A x \in Teams : score'[x] < 10) =>
        /\ hand_score' = [x \in Teams |-> 0]
        /\ \A p \in Players : slots'[p] = <<>>
        /\ trump_suit' = NoSuit
        /\ calling_team' = NoTeam
        /\ current_dealer' = (current_dealer % 4) + 1]_vars

\* C13's case: a hand dealt by seat 4 has been scored and the deal has gone
\* round to seat 1.
C13_Witness ==
  /\ last_hand.scored
  /\ phase = "DEAL"
  /\ current_dealer = 1
  /\ hand_score = [x \in Teams |-> 0]
  /\ score[1] < 10 /\ score[2] < 10

\* C14: every deal, the first of the match and every re-deal after a hand,
\* never raises and leaves each of the 4 players holding exactly 5 cards and
\* exactly 4 cards in the deck.
C14_DealLeavesFiveEach ==
  Contains(log, "Deal") =>
    /\ result = "ok"
    /\ \A p \in Players : Len(hands[p]) = 5
    /\ Len(deck) = 4

\* Every card of the deck, the four hands and the board slots, in one list.
AllCards ==
  deck \o hands[1] \o hands[2] \o hands[3] \o hands[4]
       \o slots[1] \o slots[2] \o slots[3] \o slots[4]

\* C15: in every reachable state no card (rank, suit) occurs more than once
\* across the deck, the four hands and all board slots taken together.
C15_NoDuplicateCard ==
  \A i, j \in 1..Len(AllCards) : i # j => AllCards[i] # AllCards[j]

C17_OutOfTurnRejected ==
  [][\A p \in Players :
       p # current_player =>
         /\ \A c \in Range(hands[p]) \cup {NoCard} :
              (\E k \in Shuffles : Play(p, c, k))
                 => /\ result' = "failed"
                    /\ log' = <<>>
                    /\ UNCHANGED <<hands, slots, current_player, trump_suit,
                                   calling_team, phase>>
         /\ Pass(p)
               => /\ result' = "failed"
                  /\ log' = <<>>
                  /\ UNCHANGED <<hands, slots, current_player, trump_suit,
                                 calling_team, phase>>
         /\ CallPickup(p)
               => /\ result' = "failed"
                  /\ log' = <<>>
                  /\ UNCHANGED <<hands, slots, current_player, trump_suit,
                                 calling_team, phase>>
         /\ \A suit \in CallSuits :
              CallSuit(p, suit)
                 => /\ result' = "failed"
                    /\ log' = <<>>
                    /\ UNCHANGED <<hands, slots, current_player, trump_suit,
                                   calling_team, phase>>]_vars

\* C18: a play that passes validation (phase PLAY, the current player's turn,
\* card held) returns a successful result, and after it current_player is the
\* next seat modulo 4 after the player who played, unless the play completed
\* the trick; the same advance happens after each successful pass in bidding.
C18_PlayAdvancesTurn ==
  [][\A p \in Players :
       /\ \A c \in Range(hands[p]) :
            (/\ phase = "PLAY"
             /\ p = current_player
             /\ \E k \in Shuffles : Play(p, c, k)) =>
               /\ result' = "ok"
               /\ last_trick'.scored \/ current_player' = (p % 4) + 1
       /\ (/\ phase \in {"PICKUP_CARD", "PICK_SUIT"}
           /\ p = current_player
           /\ Pass(p)
           /\ result' = "ok") => current_player' = (p % 4) + 1]_vars

\* C19: in PICKUP_CARD the phase is promoted to PICK_SUIT exactly when the turn
\* has made a full circuit, the four players having passed in succession with
\* the dealer last: a pass promotes exactly when it is the dealer's pass made on
\* the dealer's turn, no other pass changes the phase, and after the promotion
\* current_player is the seat after the dealer.
C19_PickSuitAfterFullCircuit ==
  [][\A p \in Players :
       (phase = "PICKUP_CARD" /\ Pass(p)) =>
          /\ phase' \in {"PICKUP_CARD", "PICK_SUIT"}
          /\ (phase' = "PICK_SUIT") <=> (p = current_dealer /\ current_player = current_dealer)
          /\ (phase' = "PICK_SUIT") => current_player' = (current_dealer % 4) + 1]_vars

\* C20: route raises a fatal condition, runs no executor and leaves the game
\* state unchanged when the action name has no registered rule, and also when
\* player_action is true and the name is a system-internal one outside the
\* client allow-list.
C20_UnroutableRaises ==
  [][\A name \in OtherNames, player_action \in BOOLEAN :
       ((name \notin RegisteredRules \/ player_action) /\ Route(name, player_action)) =>
          /\ result' = "raised"
          /\ log' = <<>>
          /\ UNCHANGED gameVars]_vars

\* C20's case: in the middle of a hand a message was turned away by the router
\* before any executor ran.
C20_Witness ==
  /\ result = "raised"
  /\ log = <<>>
  /\ phase = "PLAY"
  /\ trick_plays # <<>>

\* C21: each of the six client action names play, discard, call_reneg,
\* call_pickup, pass and call_suit, sent by a client, is on the allow-list and
\* has a registered rule, so it is delegated to that rule's process and is never
\* rejected with a fatal condition of the router (an exception before any
\* validator or executor has run).
C21_ClientNamesRouted ==
  [][\A p \in Players :
       /\ \A c \in Range(hands[p]) \cup {NoCard} :
            /\ Play(p, c, 1) => ~(result' = "raised" /\ log' = <<>>)
            /\ Discard(p, c) => ~(result' = "raised" /\ log' = <<>>)
       /\ CallReneg(p, 1) => ~(result' = "raised" /\ log' = <<>>)
       /\ CallPickup(p) => ~(result' = "raised" /\ log' = <<>>)
       /\ SendPass(p) => ~(result' = "raised" /\ log' = <<>>)
       /\ \A suit \in CallSuits :
            CallSuit(p, suit) => ~(result' = "raised" /\ log' = <<>>)]_vars

\* The names that have a rule, and the result of handing an action to its rule.
RuleNames == {"play", "discard", "call_reneg", "call_pickup", "pass", "call_suit",
              "trick_over"}
RuleProcess(a, s) == IF a.name = "pass" THEN PassRule(a, s) ELSE rules(a, s)

\* C22: process runs a rule's validators in registration order and stops at the
\* first one that returns false; it then returns the failed result, the rule's
\* executor and all follow-ups are never run, and game and board are unchanged.
C22_FirstRejectionStops ==
  \A name \in RuleNames, p \in Players :
    \A c \in Range(hands[p]) \cup {NoCard} :
      LET a == Action(name, p, c, SUITS[1], 1)
          vs == RuleValidators(name)
          o == RuleProcess(a, State)
      IN  \A i \in 1..Len(vs) :
            (/\ ~validate(vs[i], a, State)
             /\ \A j \in 1..(i - 1) : validate(vs[j], a, State)) =>
               /\ o.result = "failed"
               /\ o.validated = SubSeq(vs, 1, i)
               /\ o.log = <<>>
               /\ o.s = State

\* C22's case: after a pickup a discard of a held card got past the first two
\* validators and was turned away by the third.
C22_Witness ==
  /\ phase = "DISCARD"
  /\ blocking_on_discard # <<>>
  /\ result = "failed"
  /\ log = <<>>
  /\ LET a == Action("discard", current_dealer, Head(hands[current_dealer]), NoSuit, 1)
     IN  DiscardRule(a, State).validated = RuleValidators("discard")

\* The game and board fields of a state record.
GameOf(s) == <<s.phase, s.deck, s.hands, s.slots, s.trump_suit, s.calling_team, s.score,
               s.hand_score, s.current_dealer, s.current_player, s.blocking_on_discard,
               s.renegs>>

\* The state after the first k executors of a level have run in list order,
\* and the result of the k-th; the state before an executor is worked out
\* before the executor is applied to it.
RECURSIVE AfterLevel(_, _, _, _)
AfterLevel(level, a, s, k) ==
  IF k = 0 THEN s
  ELSE LET before == AfterLevel(level, a, s, k - 1)
       IN  IF before.phase = "" THEN before ELSE Execute(level[k], a, before).s
ResultAt(level, a, s, k) ==
  LET before == AfterLevel(level, a, s, k - 1)
  IN  IF before.phase = "" THEN ActionResult(before, "none", <<>>)
      ELSE Execute(level[k], a, before)

\* The k-th executor of the level is the first that does not return a success.
FirstFailure(level, a, s, k) ==
  /\ ResultAt(level, a, s, k).success # "true"
  /\ \A j \in 1..(k - 1) : ResultAt(level, a, s, j).success = "true"

\* C23: the executors of a level run in list order; when one returns a failed
\* result, the rest of the level and every follow-up collected so far, those of
\* the failed result included, are not executed, the failure is what is
\* returned, and what the executors that ran did to the state persists.
C23_FailureStopsLevel ==
  result = "none" =>
    \A level \in Levels, p \in Senders : \A k \in 1..Len(level) :
      FirstFailure(level, DrainAction(p), State, k) =>
        LET r == ResultAt(level, DrainAction(p), State, k)
            o == run_executors(DrainAction(p), State, level, 1, <<>>, <<>>)
        IN  /\ o.result = IF r.success = "none" THEN "raised" ELSE "failed"
            /\ o.log = SubSeq(level, 1, k)
            /\ GameOf(o.s) = GameOf(r.s)

\* C23's case: a card was played, then a reneg call without a reneg on record
\* failed before the last executor of the level: the played card stays on the
\* slot, the five penalty points stay, and neither the rest of the level nor
\* any follow-up ran.
C23_Witness ==
  /\ result = "failed"
  /\ log = <<"PlayCard", "Reneg">>
  /\ \E p \in Players : slots[p] # <<>>
  /\ hand_score[1] + hand_score[2] >= RenegPoints
  /\ ~last_hand.scored

\* The follow-ups emitted by the first k executors of a level, in emission order.
RECURSIVE FollowsOf(_, _, _, _)
FollowsOf(level, a, s, k) ==
  IF k = 0 THEN <<>>
  ELSE FollowsOf(level, a, s, k - 1) \o ResultAt(level, a, s, k).follow

\* C24: follow-up expansion is breadth-style: every executor of a level runs
\* before any follow-up emitted by an executor of that level, and the next
\* level is the concatenation, in emission order, of the follow-ups of all the
\* executors of the level; after hand scoring, ClearBoard, AdvanceDealer and
\* Deal all run before the broadcast emitted by Deal.
C24_BreadthStyleExpansion ==
  result = "none" =>
    \A level \in Levels, p \in Senders :
      LET a == DrainAction(p)
          n == Len(level)
          o == run_executors(a, State, level, 1, <<>>, <<>>)
          expected == level \o FollowsOf(level, a, State, n)
      IN  /\ (\A k \in 1..n : ResultAt(level, a, State, k).success = "true") =>
                /\ Len(o.log) >= n
                /\ \A i \in 1..Min(Len(o.log), Len(expected)) : o.log[i] = expected[i]
                /\ o.result = "ok" => Len(o.log) >= Len(expected)
          /\ (level = <<"ScoreHand">> /\ o.s.phase # "END_GAME") =>
                o.log = <<"ScoreHand", "Broadcast", "ClearBoard", "AdvanceDealer", "Deal",
                          "Broadcast">>

\* C24's case: hand scoring and a broadcast formed one level; the broadcast of
\* the level ran before the four follow-ups of the hand scoring, and Deal's own
\* broadcast ran last.
C24_Witness ==
  /\ result = "ok"
  /\ phase = "DEAL"
  /\ log = <<"ScoreHand", "Broadcast", "Broadcast", "ClearBoard", "AdvanceDealer", "Deal",
             "Broadcast">>

\* C25: peek returns the card the next deal removes, so the card the dealer
\* receives on a pickup is the card announced as showing at the end of the deal.
C25_PickupCardIsShownCard ==
  [][/\ deck # <<>> => peek(deck) = Head(deck)
     /\ \A p \in Players :
          (phase = "PICKUP_CARD" /\ CallPickup(p) /\ result' = "ok") =>
            /\ Len(hands'[current_dealer]) = Len(hands[current_dealer]) + 1
            /\ hands'[current_dealer][Len(hands'[current_dealer])] = peek(deck)]_vars

\* No executor other than Broadcast occurs twice among the executors that ran.
NoExecutorRepeats(ran) ==
  \A i \in 1..Len(ran), j \in 1..Len(ran) :
    (i # j /\ ran[i] = ran[j]) => ran[i] = "Broadcast"

\* C26: for every registered rule and every reachable state the drain started
\* by process terminates: no executor re-emits itself in a cycle, and the
\* inbound action resolves after finitely many levels and returns a result.
C26_DrainReturnsResult ==
  \A name \in RegisteredRules, p \in Players : \A c \in Choices(p) :
    LET o == rules(Action(name, p, c, SUITS[1], 1), State)
    IN  /\ o.result \in {"ok", "failed"}
        /\ NoExecutorRepeats(o.log)
        /\ Len(o.log) <= Cardinality(Executors) + NumPlayers

\* The action names a client may send.
ClientNames == {"play", "discard", "call_reneg", "call_pickup", "pass", "call_suit"}

\* Some client action by some player succeeds in the current state.
SomeClientActionSucceeds ==
  \E name \in ClientNames, p \in Players, suit \in Range(SUITS) :
    \E c \in Range(hands[p]) \cup {NoCard} :
      route(Action(name, p, c, suit, 1), State, TRUE).result = "ok"

\* C27: the match can always make progress: in every reachable state of a
\* started match whose phase is not END_GAME at least one client action by some
\* player succeeds.
C27_NoDeadlockBeforeEndGame ==
  phase \notin {"SETUP", "END_GAME"} => SomeClientActionSucceeds

\* C28: SCORE_TRICK and SCORE_GAME are transient: once an inbound action has
\* fully resolved, successfully or with a failed result, the phase is neither.
C28_ScoringPhasesTransient ==
  result \in {"ok", "failed"} => phase \notin {"SCORE_TRICK", "SCORE_GAME"}

\* C29: the phase is END_GAME if and only if some team's game score is 10 or
\* more; at most one team has 10 or more, and no score ever exceeds 11.
C29_EndGameIffTenPoints ==
  /\ phase = "END_GAME" <=> \E x \in Teams : score[x] >= WinningScore
  /\ ~(\A x \in Teams : score[x] >= WinningScore)
  /\ \A x \in Teams : score[x] <= WinningScore + 1

\* C29's case: a hand has just been scored and took its winner to ten points
\* or more, and the game is over.
C29_Witness ==
  /\ last_hand.scored
  /\ phase = "END_GAME"
  /\ last_hand.before[last_hand.winner] < WinningScore
  /\ score[last_hand.winner] >= WinningScore

\* C30: in PICK_SUIT a pass by the dealer is rejected by validation and leaves
\* the state unchanged, so PICK_SUIT is always left by a successful call_suit,
\* which sets trump_suit to the called suit, calling_team to the caller's team
\* and the phase to PLAY, and never by a circuit of passes into DISCARD.
C30_PickSuitLeftOnlyByCallSuit ==
  [][/\ \A p \in Players :
          (phase = "PICK_SUIT" /\ p = current_dealer /\ Pass(p)) =>
            /\ result' = "failed"
            /\ log' = <<>>
            /\ UNCHANGED gameVars
     /\ (phase = "PICK_SUIT" /\ phase' # "PICK_SUIT") =>
          /\ phase' = "PLAY"
          /\ result' = "ok"
          /\ \E p \in Players, suit \in Range(SUITS) :
               /\ CallSuit(p, suit)
               /\ trump_suit' = suit
               /\ calling_team' = team_id(p)]_vars

\* C31: whenever the phase enters PLAY at the start of a hand, after the
\* dealer's discard following a pickup or after a call_suit, current_player is
\* the player seated immediately after the dealer, whoever made the bid.
C31_PlayStartsAtDealersLeft ==
  [][(phase \in {"DISCARD", "PICK_SUIT"} /\ phase' = "PLAY") =>
       current_player' = NextSeat(current_dealer')]_vars

====
